---- MODULE Spec2Model ----
(***************************************************************************)
(* Model of scrolly.js: the step table chartSpecs, the module variable     *)
(* currentStep, the async function updateChart with its three suspension   *)
(* points (fetch, response.json, vegaEmbed), the IntersectionObserver      *)
(* callback registered by setupObserver, and the module initialisation.    *)
(*                                                                         *)
(* JavaScript runs the synchronous part of every callback to completion,   *)
(* so one action is one run of the event loop: the top-level script, one   *)
(* observer callback over a whole batch of entries, or the resumption of   *)
(* one updateChart invocation after one of its awaits settles.             *)
(***************************************************************************)
EXTENDS Integers, Sequences, FiniteSets

\* ------------------------------------------------------------------ bounds
\* Total number of updateChart invocations in one behaviour.
MaxCalls == 3
\* Largest number of entries the platform delivers in one observer callback.
MaxBatch == 2

\* -------------------------------------------------------- JavaScript values
\* A JavaScript number that is an integer, and the not-a-number value.
Num(n) == [nan |-> FALSE, v |-> n]
NaN == [nan |-> TRUE, v |-> 0]

\* The value `undefined` of a failed property lookup.
Undefined == "undefined"

\* scrolly.js line 20: stepIndex === currentStep.  Strict equality of two
\* numbers; NaN is not equal to anything, itself included.
StrictEqualsNoGuard(a, b) == FALSE
StrictEquals(a, b) == ~a.nan /\ ~b.nan /\ a.v = b.v

\* ------------------------------------------------------------ the step table
\* scrolly.js lines 4-13.
chartSpecs ==
    << "chart_food_basket_minimal.json",
       "chart_food_basket.json",
       "chart_state_1.json",
       "chart_state_2.json",
       "chart_state_3.json",
       "chart_state_4.json",
       "chart_state_5.json",
       "chart_state_6.json" >>

\* scrolly.js line 27: chartSpecs[stepIndex] on a 0-based array; a key that
\* is no index of the array (NaN, a negative number, one past the end)
\* yields undefined.
LookupShifted(stepIndex) ==
    IF ~stepIndex.nan /\ stepIndex.v + 1 \in 1..Len(chartSpecs)
    THEN chartSpecs[((stepIndex.v + 1) % Len(chartSpecs)) + 1]
    ELSE Undefined
LookupClamped(stepIndex) ==
    IF stepIndex.nan THEN Undefined
    ELSE IF stepIndex.v + 1 \in 1..Len(chartSpecs) THEN chartSpecs[stepIndex.v + 1]
    ELSE chartSpecs[Len(chartSpecs)]
Lookup(stepIndex) ==
    IF ~stepIndex.nan /\ stepIndex.v + 1 \in 1..Len(chartSpecs)
    THEN chartSpecs[stepIndex.v + 1]
    ELSE Undefined

\* scrolly.js line 28: !specFile.  Every table entry is a non-empty string,
\* so only undefined is falsy.
NoSpec(specFile) == specFile = Undefined

\* ------------------------------------------------- parseInt(string, 10)
Digits == << "0", "1", "2", "3", "4", "5", "6", "7", "8", "9" >>
IsDigit(c) == \E i \in 1..Len(Digits) : Digits[i] = c
DigitValue(c) == (CHOOSE i \in 1..Len(Digits) : Digits[i] = c) - 1
IsWhiteSpace(c) == c = " "

RECURSIVE TrimStart(_)
TrimStart(s) ==
    IF s # << >> /\ IsWhiteSpace(Head(s)) THEN TrimStart(Tail(s)) ELSE s

\* The longest prefix of s made of decimal digits.
RECURSIVE DigitPrefix(_)
DigitPrefix(s) ==
    IF s # << >> /\ IsDigit(Head(s))
    THEN << Head(s) >> \o DigitPrefix(Tail(s))
    ELSE << >>

\* The mathematical value of a sequence of decimal digits.
RECURSIVE DecimalValue(_)
DecimalValue(z) ==
    IF z = << >> THEN 0
    ELSE 10 * DecimalValue(SubSeq(z, 1, Len(z) - 1)) + DigitValue(z[Len(z)])

\* scrolly.js line 60: parseInt(input, 10) on the characters of ToString(input):
\* leading white space is skipped, one sign is taken, then the longest run
\* of digits is read; what follows is ignored; no digit at all gives NaN.
ParseInt(chars) ==
    LET s == TrimStart(chars)
        neg == s # << >> /\ Head(s) = "-"
        body == IF s # << >> /\ Head(s) \in {"-", "+"} THEN Tail(s) ELSE s
        z == DigitPrefix(body)
    IN  IF z = << >> THEN NaN
        ELSE IF neg THEN Num(0 - DecimalValue(z)) ELSE Num(DecimalValue(z))

\* --------------------------------------------------------------- host page
\* The data-step attributes the .step elements of the host page may carry:
\* a well-formed index with a table entry, an index read through leading
\* white space and trailing text, an index past the table, and an element
\* with no data-step attribute at all.
StepElements ==
    { [present |-> TRUE,  chars |-> << "0" >>],
      [present |-> TRUE,  chars |-> << " ", "1", "x" >>],
      [present |-> TRUE,  chars |-> << "9", "9" >>],
      [present |-> FALSE, chars |-> << >>] }

\* ToString(undefined), which parseInt reads when the attribute is absent.
UndefinedChars == << "u", "n", "d", "e", "f", "i", "n", "e", "d" >>

\* scrolly.js line 60: entry.target.dataset.step, as parseInt reads it.
DatasetStep(target) == IF target.present THEN target.chars ELSE UndefinedChars

\* IntersectionObserverEntry: the observed element and its isIntersecting flag.
Entries == [target : StepElements, isIntersecting : BOOLEAN]

\* The batches the platform may hand to the callback (never empty).
Batches == UNION { [1..n -> Entries] : n \in 1..MaxBatch }

\* -------------------------------------------------------- fetch responses
\* HTTP statuses a static file retrieval answers with.
Statuses == {200, 404}
\* scrolly.js line 35: response.ok.
ResponseOk(status) == status \in 200..299

\* What the #vis element shows before any render, and after a render that
\* emptied the container and then failed.
Untouched == "untouched"
Cleared == "cleared"

\* ------------------------------------------------------------------- state
VARIABLES
    currentStep,    \* scrolly.js line 16
    inv,            \* the updateChart invocations so far, in call order
    surface,        \* what the #vis element shows
    observing,      \* the top-level script has run and the observer is set up
    lastBatch,      \* the entries of the most recent observer callback
    batchBase,      \* Len(inv) when that callback began
    lastRendered    \* the invocation whose vegaEmbed resolved last (0: none)

vars == << currentStep, inv, surface, observing, lastBatch, batchBase, lastRendered >>

\* scrolly.js lines 15-16, before the first statement that calls anything.
Init ==
    /\ currentStep = Num(-1)
    /\ inv = << >>
    /\ surface = Untouched
    /\ observing = FALSE
    /\ lastBatch = << >>
    /\ batchBase = 0
    /\ lastRendered = 0

\* ------------------------------------------------------------- updateChart
\* One invocation: its argument, currentStep when it was entered and when its
\* synchronous part ended, where it stands, the file it resolved, how many
\* times it called fetch, response.json and vegaEmbed, the status of the
\* response it got, and what it wrote with console.error.
Invocation(stepIndex, before, after, pc, file, fetched, log) ==
    [ step |-> stepIndex, before |-> before, after |-> after, pc |-> pc,
      file |-> file, fetched |-> fetched, status |-> 0,
      parsed |-> 0, embedded |-> 0, log |-> log ]

\* scrolly.js line 24: currentStep = stepIndex.
ClaimNothing(cur, stepIndex) == cur
Claim(cur, stepIndex) == stepIndex

\* scrolly.js lines 18-34: the synchronous part of updateChart(stepIndex),
\* from entry to the return at line 21, the return at line 30 or the
\* suspension on fetch at line 34.  st is [cur, inv].
UpdateChart(st, stepIndex) ==
    IF StrictEquals(stepIndex, st.cur)
    THEN [ cur |-> st.cur,
           inv |-> Append(st.inv,
                     Invocation(stepIndex, st.cur, st.cur, "returned", Undefined, 0, "none")) ]
    ELSE LET cur2 == Claim(st.cur, stepIndex)
             specFile == Lookup(stepIndex)
         IN  IF NoSpec(specFile)
             THEN [ cur |-> cur2,
                    inv |-> Append(st.inv,
                              Invocation(stepIndex, st.cur, cur2, "nospec", Undefined, 0, "nospec")) ]
             ELSE [ cur |-> cur2,
                    inv |-> Append(st.inv,
                              Invocation(stepIndex, st.cur, cur2, "fetch", specFile, 1, "none")) ]

\* scrolly.js lines 43-45: the catch block logs and the invocation ends.
CatchRetry(r, cause) ==
    IF r.fetched < 2
    THEN [r EXCEPT !.pc = "fetch", !.fetched = @ + 1, !.log = cause]
    ELSE [r EXCEPT !.pc = "caught", !.log = cause]
Catch(r, cause) == [r EXCEPT !.pc = "caught", !.log = cause]

\* scrolly.js lines 43-45: the catch block does not touch currentStep.
RollBack(cur, r) == r.before
AfterCatch(cur, r) == cur

\* scrolly.js line 41: what vegaEmbed leaves in #vis when it resolves; it is
\* given the parsed document of the invocation alone.
EmbeddedIfCurrent(shown, cur, r) ==
    IF StrictEquals(cur, r.step) THEN r.file ELSE shown
Embedded(shown, cur, r) == r.file

\* ---------------------------------------------------------------- detector
\* scrolly.js line 58.
QualifiesAlways(entry) == TRUE
Qualifies(entry) == entry.isIntersecting

\* scrolly.js lines 57-65: entries.forEach, each qualifying entry calling
\* updateChart(parseInt(entry.target.dataset.step, 10)) in batch order.
RECURSIVE ForEach(_, _)
ForEach(st, entries) ==
    IF entries = << >> THEN st
    ELSE LET entry == Head(entries)
             next == IF Qualifies(entry)
                     THEN UpdateChart(st, ParseInt(DatasetStep(entry.target)))
                     ELSE st
         IN  ForEach(next, Tail(entries))

\* The number of entries of a batch that call updateChart.
RECURSIVE Forwarded(_)
Forwarded(entries) ==
    IF entries = << >> THEN 0
    ELSE (IF Qualifies(Head(entries)) THEN 1 ELSE 0) + Forwarded(Tail(entries))

\* ----------------------------------------------------------------- actions
\* scrolly.js lines 76-79: updateChart(0), then setupObserver().
Initialise ==
    /\ ~observing
    /\ LET st == UpdateChart([cur |-> currentStep, inv |-> inv], Num(0))
       IN  /\ currentStep' = st.cur
           /\ inv' = st.inv
    /\ observing' = TRUE
    /\ UNCHANGED << surface, lastRendered >>

\* scrolly.js lines 56-66: one delivery of a batch to the observer callback.
ObserverCallback(entries) ==
    /\ observing
    /\ Len(inv) + Forwarded(entries) <= MaxCalls
    /\ LET st == ForEach([cur |-> currentStep, inv |-> inv], entries)
       IN  /\ currentStep' = st.cur
           /\ inv' = st.inv
    /\ UNCHANGED << surface, observing, lastRendered >>

\* What a test harness around the callback writes down at each delivery: the
\* batch it handed over and how many invocations there were before it.
Record(entries) ==
    /\ lastBatch' = entries
    /\ batchBase' = Len(inv)

NoRecord == UNCHANGED << lastBatch, batchBase >>

\* scrolly.js lines 34-38: fetch resolves with a response; a non-success
\* status throws into the catch block, a success calls response.json().
FetchResolve(i, status) ==
    /\ inv[i].pc = "fetch"
    /\ LET r == [inv[i] EXCEPT !.status = status]
       IN  IF ResponseOk(status)
           THEN /\ inv' = [inv EXCEPT ![i] = [r EXCEPT !.pc = "json", !.parsed = @ + 1]]
                /\ currentStep' = currentStep
           ELSE /\ inv' = [inv EXCEPT ![i] = Catch(r, "http")]
                /\ currentStep' = AfterCatch(currentStep, r)
    /\ UNCHANGED << surface, observing, lastBatch, batchBase, lastRendered >>

\* scrolly.js line 34: fetch rejects (no response at all).
FetchReject(i) ==
    /\ inv[i].pc = "fetch"
    /\ inv' = [inv EXCEPT ![i] = Catch(inv[i], "network")]
    /\ currentStep' = AfterCatch(currentStep, inv[i])
    /\ UNCHANGED << surface, observing, lastBatch, batchBase, lastRendered >>

\* scrolly.js lines 38-41: the body decodes and vegaEmbed is called.
JsonResolve(i) ==
    /\ inv[i].pc = "json"
    /\ inv' = [inv EXCEPT ![i] = [@ EXCEPT !.pc = "embed", !.embedded = @ + 1]]
    /\ UNCHANGED << currentStep, surface, observing, lastBatch, batchBase, lastRendered >>

\* scrolly.js line 38: the body is no valid JSON.
JsonReject(i) ==
    /\ inv[i].pc = "json"
    /\ inv' = [inv EXCEPT ![i] = Catch(inv[i], "json")]
    /\ currentStep' = AfterCatch(currentStep, inv[i])
    /\ UNCHANGED << surface, observing, lastBatch, batchBase, lastRendered >>

\* scrolly.js lines 41-46: vegaEmbed resolves and the invocation ends.
EmbedResolve(i) ==
    /\ inv[i].pc = "embed"
    /\ inv' = [inv EXCEPT ![i] = [@ EXCEPT !.pc = "done"]]
    /\ surface' = Embedded(surface, currentStep, inv[i])
    /\ lastRendered' = i
    /\ UNCHANGED << currentStep, observing, lastBatch, batchBase >>

\* scrolly.js lines 41-45: vegaEmbed rejects; the library may already have
\* emptied the container, or not have touched it.
EmbedReject(i) ==
    /\ inv[i].pc = "embed"
    /\ inv' = [inv EXCEPT ![i] = Catch(inv[i], "embed")]
    /\ currentStep' = AfterCatch(currentStep, inv[i])
    /\ surface' \in {surface, Cleared}
    /\ UNCHANGED << observing, lastBatch, batchBase, lastRendered >>

Settle ==
    \/ \E i \in 1..Len(inv), status \in Statuses : FetchResolve(i, status)
    \/ \E i \in 1..Len(inv) : FetchReject(i)
    \/ \E i \in 1..Len(inv) : JsonResolve(i)
    \/ \E i \in 1..Len(inv) : JsonReject(i)
    \/ \E i \in 1..Len(inv) : EmbedResolve(i)
    \/ \E i \in 1..Len(inv) : EmbedReject(i)

Next ==
    \/ Initialise /\ NoRecord
    \/ \E entries \in Batches : ObserverCallback(entries) /\ NoRecord
    \/ Settle

Spec == Init /\ [][Next]_vars

\* The detector alone, with every delivery written down.  The callback reads
\* currentStep and appends to inv; no settlement of an await changes
\* currentStep, the length of inv or the argument of an invocation, so the
\* calls a delivery makes are the same whether or not awaits settle
\* between deliveries, and the fetches are left pending here.
DetectorNext ==
    \/ Initialise /\ NoRecord
    \/ \E entries \in Batches : ObserverCallback(entries) /\ Record(entries)

DetectorSpec == Init /\ [][DetectorNext]_vars

\* The resumption of invocation i after whichever await it is suspended on.
SettleOf(i) ==
    /\ i <= Len(inv)
    /\ \/ \E status \in Statuses : FetchResolve(i, status)
       \/ FetchReject(i)
       \/ JsonResolve(i)
       \/ JsonReject(i)
       \/ EmbedResolve(i)
       \/ EmbedReject(i)

\* The program under the assumption that every pending fetch, decode and
\* render settles: the event loop resumes an invocation once its await has
\* settled, and no other invocation can take that resumption away.
FairSpec == Spec /\ \A i \in 1..MaxCalls : WF_vars(SettleOf(i))

\* ================================================================== claims
\* An invocation that passed the guard of line 20.
Accepted(r) == r.pc # "returned"
\* An invocation suspended on one of its awaits.
InFlight(r) == r.pc \in {"fetch", "json", "embed"}
\* No invocation is suspended.
Quiescent == \A i \in 1..Len(inv) : ~InFlight(inv[i])
\* The step index has an entry in the step table.
HasEntry(stepIndex) == ~stepIndex.nan /\ stepIndex.v \in 0..(Len(chartSpecs) - 1)
\* The invocation started nothing: no fetch, no parse, no render, no log,
\* and currentStep was the same when it returned as when it was entered.
NoEffect(r) ==
    /\ r.fetched = 0 /\ r.parsed = 0 /\ r.embedded = 0
    /\ r.log = "none" /\ r.after = r.before

\* C1: idempotence of updateChart.  Whenever updateChart(k) is called with
\* currentStep # k for a k that has a table entry, and the very next call is
\* updateChart(k) again, the first call issued exactly one fetch and the
\* second returned at the guard with no fetch, parse, render or log and with
\* currentStep as it found it, however far the first call has got.
C1_Idempotent ==
    \A i \in 1..(Len(inv) - 1) :
        ( /\ HasEntry(inv[i].step)
          /\ inv[i + 1].step = inv[i].step
          /\ ~StrictEquals(inv[i].before, inv[i].step) )
        => /\ inv[i].fetched = 1
           /\ inv[i + 1].pc = "returned"
           /\ NoEffect(inv[i + 1])

\* The second of two successive calls for step 1 was made while the first
\* was still suspended on its fetch.
C1_Witness ==
    \E i \in 1..(Len(inv) - 1) :
        /\ inv[i].step = Num(1) /\ inv[i + 1].step = Num(1)
        /\ inv[i].pc = "fetch"
        /\ inv[i + 1].pc = "returned"

\* C2 as stated: for each step index at most one invocation is in flight.
C2_OneInFlightPerStep ==
    \A i, j \in 1..Len(inv) :
        (i < j /\ InFlight(inv[i]) /\ InFlight(inv[j])) => inv[i].step # inv[j].step

\* C2 as amended: two invocations for the same step index are in flight
\* together only if an invocation for another step index was accepted
\* between them; no invocation for k starts while currentStep is k.
C2_OneInFlightPerClaim ==
    \A i, j \in 1..Len(inv) :
        (i < j /\ InFlight(inv[i]) /\ InFlight(inv[j]) /\ inv[i].step = inv[j].step)
        => \E m \in (i + 1)..(j - 1) :
               Accepted(inv[m]) /\ inv[m].step # inv[i].step

\* updateChart(0), updateChart(1), updateChart(0): both invocations for step
\* 0 are suspended at once.
C2_Witness ==
    /\ Len(inv) = 3
    /\ inv[1].step = Num(0) /\ inv[2].step = Num(1) /\ inv[3].step = Num(0)
    /\ InFlight(inv[1]) /\ InFlight(inv[3])

\* C3: the render that completes last decides the surface, not currentStep.
\* Once a vegaEmbed call has resolved, the surface shows the table entry of
\* the step of the invocation whose vegaEmbed resolved last (unless a later
\* failed render emptied it), whatever currentStep is.
C3_LastRenderDecides ==
    (lastRendered # 0 /\ surface # Cleared)
    => surface = Lookup(inv[lastRendered].step)

\* The documented race has happened: updateChart(0) then updateChart(1), both
\* finished, the render for step 0 resolved last, and nothing is in flight:
\* the surface shows the artifact of step 0 while currentStep is 1.
C3_Witness ==
    /\ Quiescent
    /\ Len(inv) = 2
    /\ inv[1].step = Num(0) /\ inv[1].pc = "done"
    /\ inv[2].step = Num(1) /\ inv[2].pc = "done"
    /\ lastRendered = 1
    /\ currentStep = Num(1)
    /\ surface = Lookup(Num(0))
    /\ surface # Lookup(currentStep)

\* C4: once the top-level script has run, the first invocation is the one
\* for step 0, made from the sentinel, and it issued the one fetch for the
\* entry of step 0; as long as no observer entry has called updateChart,
\* currentStep is 0 and that is the only invocation; and if the first call
\* the observer makes is for step 0, it returns at the guard.
C4_InitialState ==
    observing =>
        /\ Len(inv) >= 1
        /\ inv[1].step = Num(0) /\ inv[1].before = Num(-1)
        /\ inv[1].fetched = 1 /\ inv[1].file = chartSpecs[1]
        /\ Len(inv) = 1 => currentStep = Num(0)
        /\ (Len(inv) >= 2 /\ inv[2].step = Num(0))
           => (inv[2].pc = "returned" /\ NoEffect(inv[2]))

\* The observer's first call was for step 0, with the initial fetch pending.
C4_Witness ==
    /\ observing
    /\ Len(inv) >= 2
    /\ inv[1].pc = "fetch"
    /\ inv[2].step = Num(0)

\* C5: transport failure.  In every step in which the fetch of an invocation
\* resolves with a non-success status, the failure is logged, the
\* invocation ends without calling response.json or vegaEmbed, the surface
\* and currentStep stay as they were, and currentStep was already the
\* requested index when the fetch was issued; an invocation that has ended
\* this way never does anything again.
C5_TransportFailure ==
    [][ \A i \in 1..Len(inv) :
          /\ ( /\ inv[i].pc = "fetch"
               /\ inv'[i].status # 0
               /\ ~ResponseOk(inv'[i].status) )
             => /\ inv'[i].pc = "caught"
                /\ inv'[i].log = "http"
                /\ inv'[i].parsed = 0 /\ inv'[i].embedded = 0
                /\ inv'[i].fetched = 1
                /\ surface' = surface
                /\ currentStep' = currentStep
                /\ inv[i].after = inv[i].step
          /\ (inv[i].pc = "caught" /\ inv[i].log = "http") => inv'[i] = inv[i]
      ]_vars

\* A fetch answered 404 while a chart was shown and currentStep was still the
\* index of the failed invocation.
C5_Witness ==
    \E i \in 1..Len(inv) :
        /\ inv[i].status = 404
        /\ inv[i].pc = "caught"
        /\ currentStep = inv[i].step
        /\ surface \notin {Untouched, Cleared, inv[i].file}

\* C6: missing mapping.  The table has an entry exactly for the indices 0 to
\* Len(chartSpecs) - 1; every accepted invocation for an integer index
\* outside that range logged the diagnostic and ended without fetch, parse
\* or render, and is never the invocation that rendered last.
C6_MissingMapping ==
    /\ \A k \in (0 - 2)..(Len(chartSpecs) + 2) \cup {99} :
           NoSpec(Lookup(Num(k))) <=> k \notin 0..(Len(chartSpecs) - 1)
    /\ \A i \in 1..Len(inv) :
           ( /\ Accepted(inv[i])
             /\ ~inv[i].step.nan
             /\ inv[i].step.v \notin 0..(Len(chartSpecs) - 1) )
           => /\ inv[i].pc = "nospec"
              /\ inv[i].log = "nospec"
              /\ inv[i].fetched = 0 /\ inv[i].parsed = 0 /\ inv[i].embedded = 0
              /\ lastRendered # i

\* updateChart(99) was accepted while a chart was shown.
C6_Witness ==
    \E i \in 1..Len(inv) :
        /\ inv[i].step = Num(99)
        /\ inv[i].pc = "nospec"
        /\ surface = Lookup(Num(0))

\* C7 as stated: a well-formed attribute reaches updateChart as its integer
\* value, and an invocation for a malformed attribute (NaN) starts no fetch,
\* parse or render and leaves later handling as it was: a repeat of the
\* malformed notification is suppressed by the guard like any repeated
\* notification, and so is a following notification for the step that was
\* current before the malformed one.
C7_MalformedIsNoOp ==
    /\ ParseInt(<< "0" >>) = Num(0)
    /\ ParseInt(<< "9", "9" >>) = Num(99)
    /\ \A i \in 1..Len(inv) :
           inv[i].step.nan =>
               /\ inv[i].fetched = 0 /\ inv[i].parsed = 0 /\ inv[i].embedded = 0
               /\ i < Len(inv) =>
                      /\ inv[i + 1].step.nan => inv[i + 1].pc = "returned"
                      /\ StrictEquals(inv[i + 1].step, inv[i].before)
                             => inv[i + 1].pc = "returned"

\* C8 as stated: updateChart(0), updateChart(1), updateChart(0) from the
\* sentinel issue exactly two fetches.
C8_TwoRetrievals ==
    ( /\ Len(inv) >= 3
      /\ inv[1].before = Num(-1)
      /\ inv[1].step = Num(0) /\ inv[2].step = Num(1) /\ inv[3].step = Num(0) )
    => inv[1].fetched + inv[2].fetched + inv[3].fetched = 2

\* C8 as amended: the three calls issue exactly three fetches, for the
\* entry of step 0, then of step 1, then of step 0 again.
C8_ThreeRetrievals ==
    ( /\ Len(inv) >= 3
      /\ inv[1].before = Num(-1)
      /\ inv[1].step = Num(0) /\ inv[2].step = Num(1) /\ inv[3].step = Num(0) )
    => /\ inv[1].fetched + inv[2].fetched + inv[3].fetched = 3
       /\ inv[1].fetched = 1 /\ inv[1].file = chartSpecs[1]
       /\ inv[2].fetched = 1 /\ inv[2].file = chartSpecs[2]
       /\ inv[3].fetched = 1 /\ inv[3].file = chartSpecs[1]

\* The three calls have been made.
C8_Witness ==
    /\ Len(inv) = 3
    /\ inv[1].before = Num(-1)
    /\ inv[1].step = Num(0) /\ inv[2].step = Num(1) /\ inv[3].step = Num(0)

\* An invocation that has ended in failure.
Failed(r) == r.pc \in {"nospec", "caught"}
\* An invocation that has ended.
Ended(r) == r.pc \in {"returned", "nospec", "caught", "done"}

\* C9: failure boundary.  In every step, an invocation that fails (at the
\* lookup, the fetch, the status check, the decode or the render) ends with
\* a log entry; the step leaves every other earlier invocation as it was and
\* the observer registered; an ended invocation never changes again, so
\* nothing is retried; and no invocation ever calls fetch, response.json or
\* vegaEmbed more than once, nor logs unless it failed.
C9_FailureBoundary ==
    [][ \A i \in 1..Len(inv') :
          /\ inv'[i].fetched <= 1 /\ inv'[i].parsed <= 1 /\ inv'[i].embedded <= 1
          /\ Failed(inv'[i]) <=> inv'[i].log # "none"
          /\ (i <= Len(inv) /\ Ended(inv[i])) => inv'[i] = inv[i]
          /\ (Failed(inv'[i]) /\ (i > Len(inv) \/ ~Failed(inv[i])))
             => /\ observing'
                /\ Len(inv') >= Len(inv)
                /\ \A j \in 1..Len(inv) : j # i => inv'[j] = inv[j]
      ]_vars

\* Each of the four failures has happened to some invocation, and an
\* invocation called after a failed one went on to render.
C9_Witness ==
    /\ \E i \in 1..Len(inv) : inv[i].pc = "nospec"
    /\ \E i \in 1..Len(inv) : inv[i].pc = "caught" /\ inv[i].embedded = 1
    /\ \E i, j \in 1..Len(inv) : i < j /\ Failed(inv[i]) /\ inv[j].pc = "done"

\* The positions of the most recent batch whose entry is intersecting.
QualifyingPositions == { i \in 1..Len(lastBatch) : lastBatch[i].isIntersecting }
\* How many qualifying positions there are up to position i.
Rank(i) == Cardinality({ j \in QualifyingPositions : j <= i })

\* C10: detector forwarding.  After every delivery, the invocations made by
\* it are exactly one per intersecting entry, in the order of the batch,
\* equal indices included, each with the base-10 value of the element's
\* data-step attribute; entries that are not intersecting call nothing; the
\* calls depend on the batch alone.
C10_Forwarding ==
    lastBatch # << >> =>
        /\ Len(inv) = batchBase + Cardinality(QualifyingPositions)
        /\ \A i \in QualifyingPositions :
               LET r == inv[batchBase + Rank(i)]
                   target == lastBatch[i].target
               IN  /\ r.step = ParseInt(DatasetStep(target))
                   /\ (target.present /\ target.chars = << "0" >>) => r.step = Num(0)
                   /\ (target.present /\ target.chars = << " ", "1", "x" >>) => r.step = Num(1)
                   /\ (target.present /\ target.chars = << "9", "9" >>) => r.step = Num(99)
                   /\ ~target.present => r.step = NaN

\* A batch of two intersecting entries for the same element: two calls were
\* made, and the second returned at the guard.
C10_Witness ==
    /\ Len(lastBatch) = 2
    /\ lastBatch[1].isIntersecting /\ lastBatch[2].isIntersecting
    /\ lastBatch[1].target = lastBatch[2].target
    /\ Len(inv) = batchBase + 2
    /\ inv[Len(inv)].pc = "returned"

\* C11: stale completions are never discarded.  In every step in which the
\* decode of an invocation resolves, the invocation calls vegaEmbed, and in
\* every step in which its vegaEmbed resolves, the surface becomes the table
\* entry of its own step index, whatever currentStep is at that moment.  If
\* every pending await settles, every invocation that issued a fetch goes on
\* to the render call unless its retrieval or decode failed, and every
\* render call ends, resolved or rejected.
C11_StaleCompletionRenders ==
    /\ [][ \A i \in 1..Len(inv) :
             /\ (inv[i].pc = "json" /\ inv'[i] # inv[i] /\ ~Failed(inv'[i]))
                => (inv'[i].pc = "embed" /\ inv'[i].embedded = 1)
             /\ (inv[i].pc = "embed" /\ inv'[i] # inv[i] /\ ~Failed(inv'[i]))
                => /\ inv'[i].pc = "done"
                   /\ surface' = chartSpecs[inv[i].step.v + 1]
                   /\ lastRendered' = i
         ]_vars
    /\ \A i \in 1..MaxCalls :
         /\ (i <= Len(inv) /\ inv[i].pc = "fetch")
            ~> (i <= Len(inv) /\ (inv[i].embedded = 1 \/ Failed(inv[i])))
         /\ (i <= Len(inv) /\ inv[i].pc = "embed")
            ~> (i <= Len(inv) /\ (inv[i].pc = "done" \/ Failed(inv[i])))

\* The render of an invocation resolved last and put its artifact on the
\* surface although two later invocations had claimed other values of
\* currentStep, the second of which rendered and the third of which missed.
C11_Witness ==
    /\ Len(inv) = 3
    /\ lastRendered = 1
    /\ inv[1].pc = "done" /\ inv[2].pc = "done"
    /\ inv[3].pc = "nospec"
    /\ surface = inv[1].file
    /\ ~StrictEquals(currentStep, inv[1].step)

\* C12: currentStep is written by line 24 alone.  It is the sentinel until
\* the first call and the argument of the most recent call ever after; every
\* call finds currentStep as the call before it left it, so no resumption
\* and no catch block wrote it in between; a call that returns at the guard
\* leaves it as it was, an accepted call leaves it at its argument, and it
\* already has that value when the fetch is issued.
C12_OnlyTheClaimWrites ==
    /\ currentStep = (IF inv = << >> THEN Num(-1) ELSE inv[Len(inv)].step)
    /\ \A i \in 1..Len(inv) :
         /\ inv[i].before = (IF i = 1 THEN Num(-1) ELSE inv[i - 1].after)
         /\ ~Accepted(inv[i]) => inv[i].after = inv[i].before
         /\ Accepted(inv[i]) => inv[i].after = inv[i].step
         /\ inv[i].fetched >= 1 => inv[i].after = inv[i].step

\* A fetch failed, a later render resolved, and the call after it returned
\* at the guard: none of the three moved currentStep off the last claim.
C12_Witness ==
    /\ Len(inv) = 3
    /\ inv[1].pc = "caught"
    /\ inv[2].pc = "done"
    /\ inv[3].pc = "returned"
    /\ currentStep = inv[2].step

\* C13 as stated: the fetch issued for step index 0 is for chart_state_1.json
\* and the fetch issued for step index 1 is for chart_state_2.json, as the
\* comments of lines 7 and 8 say.
C13_TableAsCommented ==
    \A i \in 1..Len(inv) :
        inv[i].fetched >= 1 =>
            /\ inv[i].step = Num(0) => inv[i].file = "chart_state_1.json"
            /\ inv[i].step = Num(1) => inv[i].file = "chart_state_2.json"

====
